---- MODULE Spec2Model ----
(***************************************************************************)
(* Model of rsnd (src/src/main.rs): the cached page fetch, the extraction  *)
(* of episode references, the cached metadata resolution, the audio        *)
(* download and the loop of main that sequences them.                      *)
(*                                                                         *)
(* Strings are sequences of one-character strings, so that rsplit_once,    *)
(* the regex replacement, to_lowercase and format! are computed character  *)
(* by character.  A file is the name of the document it was written from   *)
(* and the number of units of it that reached the disk.                    *)
(***************************************************************************)
EXTENDS Integers, Sequences, FiniteSets, TLC

VARIABLES
    run,          \* number of the current invocation of main
    url,          \* args.url of the current invocation
    pc,           \* position of main (and of the function it is inside)
    cache,        \* files of the cache directory: file name -> content
    out,          \* files of the output folder: file name -> content
    page_html,    \* main: page_html
    audio_urls,   \* main: audio_urls
    i,            \* main: idx of enumerate() (0-based)
    rsp,          \* body of the response in flight (rsp_txt / response)
    json_content, \* fetch_audio_metadata: json_content
    metadata,     \* main: metadata
    result,       \* outcome of main: running, ok, err, panic, crashed
    err,          \* message of the error main returned
    net,          \* HTTP requests issued by this invocation, in order
    calls,        \* calls main made in its loop, in order
    ev,           \* what the last step did
    prevUrl,      \* args.url of the previous invocation
    prevResult,   \* outcome of the previous invocation
    prevCalls,    \* number of calls the previous invocation made in its loop
    out0,         \* the output folder when this invocation started
    resp,         \* how the last GET of this invocation was answered
    origin,       \* for each cache file, the URL whose fetch created it
    arg,          \* argument of a function applied on its own
    ret           \* what that function returned

vars == <<run, url, pc, cache, out, page_html, audio_urls, i, rsp, json_content,
          metadata, result, err, net, calls, ev, prevUrl, prevResult, prevCalls, out0, resp, origin, arg, ret>>

-----------------------------------------------------------------------------
(* Bounds *)

MaxRuns == 2

-----------------------------------------------------------------------------
(* Strings *)

URL_BASE == <<"h","t","t","p","s",":","/","/","w","w","w",".","r","a","i",
              "p","l","a","y","s","o","u","n","d",".","i","t">>

HtmlSuffix == <<".","h","t","m","l">>

Mp3Suffix == <<".","m","p","3">>

NameSep == <<" ","-"," ">>

Upper == {"A","B","E","F","P"}

Lower == {"a","b","e","f","i","l","n","p"}

Digits == {"0","1","2","3","4","5","6","7","8","9"}

Spaces == {" ", "\t"}

ToLower(c) ==
    CASE c = "A" -> "a"
      [] c = "B" -> "b"
      [] c = "E" -> "e"
      [] c = "F" -> "f"
      [] c = "P" -> "p"
      [] OTHER -> c

DigitChar(d) ==
    CASE d = 0 -> "0" [] d = 1 -> "1" [] d = 2 -> "2" [] d = 3 -> "3"
      [] d = 4 -> "4" [] d = 5 -> "5" [] d = 6 -> "6" [] d = 7 -> "7"
      [] d = 8 -> "8" [] d = 9 -> "9"

\* str::rsplit_once('/'): the index of the last '/', 0 when there is none
LastSlash(s) ==
    IF \E k \in 1..Len(s) : s[k] = "/"
    THEN CHOOSE k \in 1..Len(s) : s[k] = "/" /\ \A j \in (k+1)..Len(s) : s[j] # "/"
    ELSE 0

HasSlash(s) == LastSlash(s) # 0

AfterLastSlash(s) == SubSeq(s, LastSlash(s) + 1, Len(s))

\* the character class misses the hyphen: [^\w\s]
IsKept_NoHyphen(c) == c \in Upper \cup Lower \cup Digits \cup {"_"} \cup Spaces

\* Regex [^\w\s-] replaced by "_"
IsKept(c) == c \in Upper \cup Lower \cup Digits \cup {"_"} \cup Spaces \cup {"-"}

ReplaceAll(s) == [k \in 1..Len(s) |-> IF IsKept(s[k]) THEN s[k] ELSE "_"]

ToLowercase(s) == [k \in 1..Len(s) |-> ToLower(s[k])]

Sanitize(title) == ToLowercase(ReplaceAll(title))

\* decimal digits of n, most significant first
RECURSIVE ToDec(_)
ToDec(n) == IF n < 10 THEN <<DigitChar(n)>>
            ELSE ToDec(n \div 10) \o <<DigitChar(n % 10)>>

RECURSIVE PadLeft(_, _)
PadLeft(s, w) == IF Len(s) >= w THEN s ELSE PadLeft(<<"0">> \o s, w)

\* format!("{:03}", idx)
Fmt03(n) == PadLeft(ToDec(n), 3)

\* format!("{:03} - {}.mp3", idx, sanitized_title)
\* the file name carries no index
OutputName_NoIndex(title, idx) == Sanitize(title) \o Mp3Suffix

OutputName(title, idx) == Fmt03(idx) \o NameSep \o Sanitize(title) \o Mp3Suffix

\* the cache key keeps the whole URL
PageFileName_WholeUrl(u) == u \o HtmlSuffix

\* format!("{}.html", rawfilename)
PageFileName(u) == AfterLastSlash(u) \o HtmlSuffix

FullUrl(ref) == URL_BASE \o ref

MetaFileName(ref) == AfterLastSlash(FullUrl(ref))

-----------------------------------------------------------------------------
(* The inputs and the remote site *)

\* catalog URLs given on the command line; the first two share their final
\* segment, the third has no '/'
UrlA == <<"h","/","a","/","p">>

UrlB == <<"h","/","b","/","p">>

UrlNoSlash == <<"p">>

CatalogUrls == {UrlA, UrlB, UrlNoSlash}

\* episode references found in pages; R1 and R3 share their final segment
R1 == <<"/","a","/","x">>

R2 == <<"/","a","/","y">>

R3 == <<"/","b","/","x">>

T1 == <<"E","p",".","1">>

T2 == <<"A","-","b">>

A1 == <<"u","/","1">>

A2 == <<"u","/","2">>

\* an rps-play-with-labels element, by what its options attribute holds
ElUrl(ref) == [kind |-> "url", url |-> ref]

ElNoAttr == [kind |-> "noattr", url |-> <<>>]

ElNoKey == [kind |-> "nokey", url |-> <<>>]

ElBadJson == [kind |-> "badjson", url |-> <<>>]

ElNonStr == [kind |-> "nonstr", url |-> <<>>]

PageDocs == {"H1", "H2", "H3"}

MetaDocs == {"M1", "M2", "MNoTitle", "MNoUrl", "MBad"}

AudioDocs == {"B1"}

Docs == PageDocs \cup MetaDocs \cup AudioDocs

\* the elements of a page, in document order
Elements(d) ==
    CASE d = "H1" -> <<ElUrl(R1), ElNoAttr, ElUrl(R2), ElNoKey, ElUrl(R3)>>
      [] d = "H2" -> <<ElUrl(R2), ElBadJson, ElUrl(R1)>>
      [] d = "H3" -> <<ElUrl(R1), ElUrl(R1), ElNonStr>>
      [] OTHER -> <<>>

\* JSON values: objects, strings, numbers, null
JStr(s) == [t |-> "str", s |-> s, o |-> <<>>]

JNum == [t |-> "num", s |-> <<>>, o |-> <<>>]

JNull == [t |-> "null", s |-> <<>>, o |-> <<>>]

JObj(o) == [t |-> "obj", s |-> <<>>, o |-> o]

\* the "audio" member of a metadata document, as a function from keys
AudioMember(d) ==
    CASE d = "M1" -> [url |-> JStr(A1), title |-> JStr(T1)]
      [] d = "M2" -> [url |-> JStr(A2), title |-> JStr(T2)]
      [] d = "MNoTitle" -> [url |-> JStr(A1)]
      [] d = "MNoUrl" -> [url |-> JNum, title |-> JStr(T1)]

\* units (elements for a page, chunks otherwise) of the full document
FullLen(d) == IF d \in PageDocs THEN Len(Elements(d)) ELSE 2

-----------------------------------------------------------------------------
(* File contents *)

NoContent == [doc |-> "null", len |-> 0]

Empty == [doc |-> "none", len |-> 0]

Full(d) == [doc |-> d, len |-> FullLen(d)]

\* a single write() that stops one unit short of the buffer
Prefix_Short(c, n) == IF n <= 1 THEN Empty ELSE [doc |-> c.doc, len |-> n - 1]

Prefix(c, n) == IF n = 0 THEN Empty ELSE [doc |-> c.doc, len |-> n]

IsComplete(c) == c.doc \in Docs /\ c.len = FullLen(c.doc)

Exists(fs, name) == name \in DOMAIN fs

\* the file is never created
Put_Dropped(fs, name, c) == fs

\* File::create + write_all of the first n units: the file holds what was written
Put(fs, name, c) == [f \in DOMAIN fs \cup {name} |-> IF f = name THEN c ELSE fs[f]]

\* the file is opened and never read: contents stays String::new()
ReadFile_Unread(fs, name) == Empty

\* File::open + read_to_string
ReadFile(fs, name) == fs[name]

\* Html::parse_document + select: the elements present in the text
ParseHtml(c) == IF c.doc \in PageDocs THEN SubSeq(Elements(c.doc), 1, c.len) ELSE <<>>

\* serde_json::from_str: well-formed only when the whole JSON text is there
JsonOk(c) == c.doc \in MetaDocs \ {"MBad"} /\ c.len = FullLen(c.doc)

\* Value indexing by a key: Null for a missing key or a non-object
Index(v, key) == IF v.t = "obj" /\ key \in DOMAIN v.o THEN v.o[key] ELSE JNull

JsonValue(c) == JObj([audio |-> JObj(AudioMember(c.doc))])

AudioField(c, key) == Index(Index(JsonValue(c), "audio"), key)

IsStr(v) == v.t = "str"

-----------------------------------------------------------------------------
(* extract_options *)

\* a malformed options attribute is skipped like a missing one
ElementPanics_SkipMalformed(e) == e.kind = "nonstr"

\* the element makes serde_json::from_str(..).expect or as_str().unwrap() panic
ElementPanics(e) == e.kind \in {"badjson", "nonstr"}

\* the collected urls lose their duplicates
RECURSIVE FilterMap_Dedup(_)
FilterMap_Dedup(es) ==
    IF es = <<>> THEN <<>>
    ELSE LET rest == FilterMap_Dedup(Tail(es))
         IN  IF Head(es).kind = "url"
                  /\ ~\E k \in 1..Len(rest) : rest[k] = Head(es).url
             THEN <<Head(es).url>> \o rest
             ELSE rest

\* filter_map over the selected elements, in document order
RECURSIVE FilterMap(_)
FilterMap(es) ==
    IF es = <<>> THEN <<>>
    ELSE IF Head(es).kind = "url" THEN <<Head(es).url>> \o FilterMap(Tail(es))
    ELSE FilterMap(Tail(es))

\* the iterator chain over the selected elements: a panic, or the collected Vec
ExtractFrom(es) ==
    [panic |-> \E k \in 1..Len(es) : ElementPanics(es[k]),
     urls  |-> FilterMap(es)]

extract_options(html) == ExtractFrom(ParseHtml(html))

-----------------------------------------------------------------------------
(* What the remote site can answer to one GET *)

Answer(kind, doc) == [kind |-> kind, doc |-> doc]

\* send() fails, the status is not a success, the body cannot be read, or a body
Answers(docs) ==
    {Answer("neterr", "null"), Answer("status", "null"), Answer("bodyerr", "null")}
        \cup {Answer("ok", d) : d \in docs}

Request(kind, u) == [kind |-> kind, url |-> u]

Call(fn, idx, what) == [fn |-> fn, idx |-> idx, arg |-> what]

NoMeta == [set |-> FALSE, url |-> <<>>, title |-> <<>>]

AudioMetadata(u, t) == [set |-> TRUE, url |-> u, title |-> t]

-----------------------------------------------------------------------------
(* State *)

\* nothing fetched, nothing on disk
Fresh ==
    /\ cache = <<>>
    /\ out = <<>>
    /\ page_html = NoContent
    /\ audio_urls = <<>>
    /\ i = 0
    /\ rsp = NoContent
    /\ json_content = NoContent
    /\ metadata = NoMeta
    /\ result = "running"
    /\ err = ""
    /\ net = <<>>
    /\ calls = <<>>
    /\ ev = "init"
    /\ prevUrl = <<>>
    /\ prevResult = "none"
    /\ prevCalls = 0
    /\ out0 = <<>>
    /\ resp = "none"
    /\ origin = <<>>

Init ==
    /\ run = 1
    /\ url \in CatalogUrls
    /\ pc = "start"
    /\ Fresh
    /\ arg = <<>>
    /\ ret = <<>>

\* the status is never looked at
StatusIsSuccess_Always(a) == TRUE

\* response.status().is_success()
StatusIsSuccess(a) == a.kind # "status"

\* the cache is never consulted: every call fetches
CacheHit_Never(fs, name) == FALSE

\* filepath.exists(): the content is read from the cache
CacheHit(fs, name) == Exists(fs, name)

\* remembers that the fetch of u created the cache file name
Note(m, name, u) == [f \in DOMAIN m \cup {name} |-> IF f = name THEN u ELSE m[f]]

\* the error is swallowed and the step is never left
Fail_Hang(msg) ==
    /\ result' = result
    /\ err' = msg
    /\ pc' = "hang"
    /\ ev' = "fail"

\* main returns Err(msg): the `?` of main
Fail(msg) ==
    /\ result' = "err"
    /\ err' = msg
    /\ pc' = "halt"
    /\ ev' = "fail"

\* main returns Ok(())
Succeed ==
    /\ result' = "ok"
    /\ pc' = "halt"

\* create_dir_all of both folders and get_client
Setup ==
    /\ pc = "start"
    /\ \E ok \in BOOLEAN :
         IF ok THEN /\ pc' = "page"
                    /\ ev' = "setup"
                    /\ UNCHANGED <<result, err>>
         ELSE Fail("Failed to create directory")
    /\ UNCHANGED <<run, url, cache, out, page_html, audio_urls, i, rsp,
                   json_content, metadata, net, calls, prevUrl, prevResult, prevCalls, out0, resp, origin, arg, ret>>

-----------------------------------------------------------------------------
(* fetch_or_read_page *)

PageNoName ==
    /\ pc = "page"
    /\ ~HasSlash(url)
    /\ Fail("Failed to extract page name")
    /\ UNCHANGED <<run, url, cache, out, page_html, audio_urls, i, rsp,
                   json_content, metadata, net, calls, prevUrl, prevResult, prevCalls, out0, resp, origin, arg, ret>>

PageHit ==
    /\ pc = "page"
    /\ HasSlash(url)
    /\ CacheHit(cache, PageFileName(url))
    /\ \E io \in BOOLEAN :
         IF io THEN /\ page_html' = ReadFile(cache, PageFileName(url))
                    /\ pc' = "extract"
                    /\ ev' = "page_hit"
                    /\ UNCHANGED <<result, err>>
         ELSE /\ Fail("Failed to read file")
              /\ UNCHANGED page_html
    /\ UNCHANGED <<run, url, cache, out, audio_urls, i, rsp,
                   json_content, metadata, net, calls, prevUrl, prevResult, prevCalls, out0, resp, origin, arg, ret>>

PageSend ==
    /\ pc = "page"
    /\ HasSlash(url)
    /\ ~CacheHit(cache, PageFileName(url))
    /\ net' = Append(net, Request("page", url))
    /\ \E a \in Answers(PageDocs) :
         /\ resp' = a.kind
         /\ IF a.kind = "neterr"
            THEN Fail("Failed to fetch URL") /\ UNCHANGED rsp
            ELSE IF ~StatusIsSuccess(a)
            THEN Fail("Failed to fetch URL. Status") /\ UNCHANGED rsp
            ELSE IF a.kind = "bodyerr"
            THEN Fail("Failed to get text from URL") /\ UNCHANGED rsp
            ELSE /\ rsp' = Full(a.doc)
                 /\ pc' = "page_create"
                 /\ ev' = "page_got"
                 /\ UNCHANGED <<result, err>>
    /\ UNCHANGED <<run, url, cache, out, page_html, audio_urls, i,
                   json_content, metadata, calls, prevUrl, prevResult, prevCalls, out0, origin, arg, ret>>

PageCreate ==
    /\ pc = "page_create"
    /\ \E ok \in BOOLEAN :
         IF ok THEN /\ cache' = Put(cache, PageFileName(url), Empty)
                    /\ origin' = Note(origin, PageFileName(url), url)
                    /\ pc' = "page_write"
                    /\ ev' = "page_created"
                    /\ UNCHANGED <<result, err>>
         ELSE /\ Fail("Failed to create file")
              /\ UNCHANGED <<cache, origin>>
    /\ UNCHANGED <<run, url, out, page_html, audio_urls, i, rsp,
                   json_content, metadata, net, calls, prevUrl, prevResult, prevCalls, out0, resp, arg, ret>>

PageWrite ==
    /\ pc = "page_write"
    /\ \E n \in 0..rsp.len :
         /\ cache' = Put(cache, PageFileName(url), Prefix(rsp, n))
         /\ IF n = rsp.len
            THEN /\ page_html' = rsp
                 /\ pc' = "extract"
                 /\ ev' = "page_miss"
                 /\ UNCHANGED <<result, err>>
            ELSE /\ Fail("Failed to write to file")
                 /\ UNCHANGED page_html
    /\ UNCHANGED <<run, url, out, audio_urls, i, rsp,
                   json_content, metadata, net, calls, prevUrl, prevResult, prevCalls, out0, resp, origin, arg, ret>>

-----------------------------------------------------------------------------
(* main: extraction and the loop over the episodes *)

Extract ==
    /\ pc = "extract"
    /\ LET r == extract_options(page_html)
       IN  IF r.panic
           THEN /\ result' = "panic"
                /\ err' = "Unable to parse JSON in options attribute"
                /\ pc' = "halt"
                /\ ev' = "panic"
                /\ UNCHANGED <<audio_urls, i>>
           ELSE /\ audio_urls' = r.urls
                /\ i' = 0
                /\ ev' = "extracted"
                /\ err' = err
                /\ IF r.urls = <<>> THEN Succeed
                   ELSE pc' = "meta" /\ UNCHANGED result
    /\ UNCHANGED <<run, url, cache, out, page_html, rsp,
                   json_content, metadata, net, calls, prevUrl, prevResult, prevCalls, out0, resp, origin, arg, ret>>

\* the end of one iteration of the for loop
NextEpisode ==
    /\ metadata' = NoMeta
    /\ json_content' = NoContent
    /\ err' = err
    /\ IF i + 1 < Len(audio_urls)
       THEN /\ i' = i + 1
            /\ pc' = "meta"
            /\ UNCHANGED result
       ELSE /\ UNCHANGED i
            /\ Succeed

audio_url == audio_urls[i + 1]

-----------------------------------------------------------------------------
(* fetch_audio_metadata *)

MetaHit ==
    /\ pc = "meta"
    /\ CacheHit(cache, MetaFileName(audio_url))
    /\ calls' = Append(calls, Call("meta", i + 1, audio_url))
    /\ \E io \in BOOLEAN :
         IF io THEN /\ json_content' = ReadFile(cache, MetaFileName(audio_url))
                    /\ pc' = "parse"
                    /\ ev' = "meta_hit"
                    /\ UNCHANGED <<result, err>>
         ELSE /\ Fail("Failed to read file")
              /\ UNCHANGED json_content
    /\ UNCHANGED <<run, url, cache, out, page_html, audio_urls, i, rsp,
                   metadata, net, prevUrl, prevResult, prevCalls, out0, resp, origin, arg, ret>>

MetaSend ==
    /\ pc = "meta"
    /\ ~CacheHit(cache, MetaFileName(audio_url))
    /\ calls' = Append(calls, Call("meta", i + 1, audio_url))
    /\ net' = Append(net, Request("meta", FullUrl(audio_url)))
    /\ \E a \in Answers(MetaDocs) :
         /\ resp' = a.kind
         /\ IF a.kind = "neterr"
            THEN Fail("Failed to fetch URL") /\ UNCHANGED rsp
            ELSE IF ~StatusIsSuccess(a)
            THEN Fail("Failed to fetch URL. Status") /\ UNCHANGED rsp
            ELSE IF a.kind = "bodyerr"
            THEN Fail("Failed to get text from URL") /\ UNCHANGED rsp
            ELSE /\ rsp' = Full(a.doc)
                 /\ pc' = "meta_create"
                 /\ ev' = "meta_got"
                 /\ UNCHANGED <<result, err>>
    /\ UNCHANGED <<run, url, cache, out, page_html, audio_urls, i,
                   json_content, metadata, prevUrl, prevResult, prevCalls, out0, origin, arg, ret>>

MetaCreate ==
    /\ pc = "meta_create"
    /\ \E ok \in BOOLEAN :
         IF ok THEN /\ cache' = Put(cache, MetaFileName(audio_url), Empty)
                    /\ origin' = Note(origin, MetaFileName(audio_url), FullUrl(audio_url))
                    /\ pc' = "meta_write"
                    /\ ev' = "meta_created"
                    /\ UNCHANGED <<result, err>>
         ELSE /\ Fail("Failed to create file")
              /\ UNCHANGED <<cache, origin>>
    /\ UNCHANGED <<run, url, out, page_html, audio_urls, i, rsp,
                   json_content, metadata, net, calls, prevUrl, prevResult, prevCalls, out0, resp, arg, ret>>

MetaWrite ==
    /\ pc = "meta_write"
    /\ \E n \in 0..rsp.len :
         /\ cache' = Put(cache, MetaFileName(audio_url), Prefix(rsp, n))
         /\ IF n = rsp.len
            THEN /\ json_content' = rsp
                 /\ pc' = "parse"
                 /\ ev' = "meta_miss"
                 /\ UNCHANGED <<result, err>>
            ELSE /\ Fail("Failed to write to file")
                 /\ UNCHANGED json_content
    /\ UNCHANGED <<run, url, out, page_html, audio_urls, i, rsp,
                   metadata, net, calls, prevUrl, prevResult, prevCalls, out0, resp, origin, arg, ret>>

\* a missing title defaults to the empty string (unwrap_or_default)
ParseMetadata_DefaultTitle(c) ==
    IF ~JsonOk(c)
    THEN [err |-> "Failed to parse JSON", meta |-> NoMeta]
    ELSE IF ~IsStr(AudioField(c, "url"))
    THEN [err |-> "Missing field url", meta |-> NoMeta]
    ELSE [err |-> "", meta |-> AudioMetadata(AudioField(c, "url").s,
                                             AudioField(c, "title").s)]

\* serde_json::from_str and the two required fields: the error, or the metadata
ParseMetadata(c) ==
    IF ~JsonOk(c)
    THEN [err |-> "Failed to parse JSON", meta |-> NoMeta]
    ELSE IF ~IsStr(AudioField(c, "url"))
    THEN [err |-> "Missing field url", meta |-> NoMeta]
    ELSE IF ~IsStr(AudioField(c, "title"))
    THEN [err |-> "Missing field title", meta |-> NoMeta]
    ELSE [err |-> "", meta |-> AudioMetadata(AudioField(c, "url").s,
                                             AudioField(c, "title").s)]

MetaParse ==
    /\ pc = "parse"
    /\ LET r == ParseMetadata(json_content)
       IN  IF r.err # ""
           THEN Fail(r.err) /\ UNCHANGED metadata
           ELSE /\ metadata' = r.meta
                /\ pc' = "dl"
                /\ ev' = "resolved"
                /\ UNCHANGED <<result, err>>
    /\ UNCHANGED <<run, url, cache, out, page_html, audio_urls, i, rsp,
                   json_content, net, calls, prevUrl, prevResult, prevCalls, out0, resp, origin, arg, ret>>

-----------------------------------------------------------------------------
(* download_audio *)

\* main passes the 0-based idx of enumerate()
DownloadIdx_ZeroBased == i

\* main passes idx + 1
DownloadIdx == i + 1

output_path == OutputName(metadata.title, DownloadIdx)

\* the existence check is missing
ShouldSkip_Never(fs, name) == FALSE

\* output_path.exists(): the download is skipped
ShouldSkip(fs, name) == Exists(fs, name)

DlSkip ==
    /\ pc = "dl"
    /\ ShouldSkip(out, output_path)
    /\ calls' = Append(calls, Call("dl", DownloadIdx, output_path))
    /\ ev' = "dl_skip"
    /\ NextEpisode
    /\ UNCHANGED <<run, url, cache, out, page_html, audio_urls, rsp,
                   net, prevUrl, prevResult, prevCalls, out0, resp, origin, arg, ret>>

DlSend ==
    /\ pc = "dl"
    /\ ~ShouldSkip(out, output_path)
    /\ calls' = Append(calls, Call("dl", DownloadIdx, output_path))
    /\ net' = Append(net, Request("audio", metadata.url))
    /\ \E a \in Answers(AudioDocs) \ {Answer("bodyerr", "null")} :
         /\ resp' = a.kind
         /\ IF a.kind = "neterr"
            THEN Fail("Failed to fetch audio URL") /\ UNCHANGED rsp
            ELSE IF ~StatusIsSuccess(a)
            THEN Fail("Failed to fetch audio URL. Status") /\ UNCHANGED rsp
            ELSE /\ rsp' = Full(a.doc)
                 /\ pc' = "dl_create"
                 /\ ev' = "dl_got"
                 /\ UNCHANGED <<result, err>>
    /\ UNCHANGED <<run, url, cache, out, page_html, audio_urls, i,
                   json_content, metadata, prevUrl, prevResult, prevCalls, out0, origin, arg, ret>>

DlCreate ==
    /\ pc = "dl_create"
    /\ \E ok \in BOOLEAN :
         IF ok THEN /\ out' = Put(out, output_path, Empty)
                    /\ pc' = "dl_write"
                    /\ ev' = "dl_created"
                    /\ UNCHANGED <<result, err>>
         ELSE /\ Fail("Failed to create file")
              /\ UNCHANGED out
    /\ UNCHANGED <<run, url, cache, page_html, audio_urls, i, rsp,
                   json_content, metadata, net, calls, prevUrl, prevResult, prevCalls, out0, resp, origin, arg, ret>>

\* response.bytes().await? and then write_all, after the file was created
DlWrite ==
    /\ pc = "dl_write"
    /\ \/ /\ Fail("error decoding response body")
          /\ UNCHANGED <<out, i, metadata, json_content>>
       \/ \E n \in 0..rsp.len :
            /\ out' = Put(out, output_path, Prefix(rsp, n))
            /\ IF n = rsp.len
               THEN /\ ev' = "dl_ok"
                    /\ NextEpisode
               ELSE /\ Fail("Failed to write to file")
                    /\ UNCHANGED <<i, metadata, json_content>>
    /\ UNCHANGED <<run, url, cache, page_html, audio_urls, rsp,
                   net, calls, prevUrl, prevResult, prevCalls, out0, resp, origin, arg, ret>>

-----------------------------------------------------------------------------
(* The process is killed, and main is invoked again *)

\* a kill during write_all leaves any strict prefix of the buffer in the file
Crash ==
    /\ result = "running"
    /\ result' = "crashed"
    /\ pc' = "halt"
    /\ ev' = "crash"
    /\ IF pc \in {"page_write", "meta_write"}
       THEN /\ \E n \in 0..(rsp.len - 1) :
                 cache' = Put(cache, IF pc = "page_write" THEN PageFileName(url)
                                     ELSE MetaFileName(audio_url), Prefix(rsp, n))
            /\ UNCHANGED out
       ELSE IF pc = "dl_write"
       THEN /\ \E n \in 0..(rsp.len - 1) : out' = Put(out, output_path, Prefix(rsp, n))
            /\ UNCHANGED cache
       ELSE UNCHANGED <<cache, out>>
    /\ UNCHANGED <<run, url, page_html, audio_urls, i, rsp, json_content,
                   metadata, err, net, calls, prevUrl, prevResult, prevCalls, out0, resp, origin, arg, ret>>

NewRun ==
    /\ pc = "halt"
    /\ run < MaxRuns
    /\ run' = run + 1
    /\ url' \in CatalogUrls
    /\ prevUrl' = url
    /\ prevResult' = result
    /\ prevCalls' = Len(calls)
    /\ out0' = out
    /\ pc' = "start"
    /\ page_html' = NoContent
    /\ audio_urls' = <<>>
    /\ i' = 0
    /\ rsp' = NoContent
    /\ json_content' = NoContent
    /\ metadata' = NoMeta
    /\ result' = "running"
    /\ err' = ""
    /\ net' = <<>>
    /\ calls' = <<>>
    /\ ev' = "init"
    /\ resp' = "none"
    /\ UNCHANGED <<cache, out, origin, arg, ret>>

Next ==
    \/ Setup
    \/ PageNoName
    \/ PageHit
    \/ PageSend
    \/ PageCreate
    \/ PageWrite
    \/ Extract
    \/ MetaHit
    \/ MetaSend
    \/ MetaCreate
    \/ MetaWrite
    \/ MetaParse
    \/ DlSkip
    \/ DlSend
    \/ DlCreate
    \/ DlWrite
    \/ Crash
    \/ NewRun

\* the steps of one invocation of main
RunStep ==
    \/ Setup
    \/ PageNoName
    \/ PageHit
    \/ PageSend
    \/ PageCreate
    \/ PageWrite
    \/ Extract
    \/ MetaHit
    \/ MetaSend
    \/ MetaCreate
    \/ MetaWrite
    \/ MetaParse
    \/ DlSkip
    \/ DlSend
    \/ DlCreate
    \/ DlWrite

\* every network call and file operation returns: an invocation that can take
\* a step does take one
LiveSpec == Init /\ [][Next]_vars /\ WF_vars(RunStep)

Spec == Init /\ [][Next]_vars

-----------------------------------------------------------------------------
(* Helpers of the properties *)

\* main returned (it was not killed and did not panic)
Returned == pc = "halt" /\ result \in {"ok", "err"}

\* the positions for which fetch_audio_metadata was called
Resolved == {calls[k].idx : k \in {j \in 1..Len(calls) : calls[j].fn = "meta"}}

LastCall == calls[Len(calls)]

\* the metadata document held by json_content lacks a string at audio.<key>
Lacks(c, key) ==
    /\ c.doc \in MetaDocs \ {"MBad"}
    /\ c.len = FullLen(c.doc)
    /\ \/ key \notin DOMAIN AudioMember(c.doc)
       \/ AudioMember(c.doc)[key].t # "str"

-----------------------------------------------------------------------------
(* C1..C10 *)

\* C1: per-episode failure isolation: when main has returned after extracting
\* a sequence of episodes, metadata resolution has run for every position of
\* the sequence, whatever happened to the episodes before it.
C1_FailureIsolation ==
    (Returned /\ audio_urls # <<>>) => Resolved = 1..Len(audio_urls)

\* C2: overall run outcome: once the directories exist and the page fetch has
\* succeeded (and extraction has produced its sequence), main returns success
\* however many episodes failed.
C2_SuccessDespiteEpisodeFailures ==
    (Returned /\ page_html # NoContent) => result = "ok"

\* C3 as stated: a run that follows a run with the same catalog URL and the
\* same folders, which fetched its page, entered its loop and returned, issues
\* no network request and leaves the output folder as it found it.
C3_SecondRunNoNetwork ==
    (run > 1 /\ prevUrl = url /\ prevResult \in {"ok", "err"} /\ prevCalls > 0)
        => (net = <<>> /\ out = out0)

\* C3 amended: a run that follows a run which returned success, with the same
\* catalog URL and the same folders, issues no network request and leaves the
\* output folder as it found it.
C3_SecondRunAfterSuccess ==
    (run > 1 /\ prevUrl = url /\ prevResult = "ok")
        => (net = <<>> /\ out = out0)

C3_Witness ==
    /\ run > 1 /\ prevUrl = url /\ prevResult = "ok"
    /\ Returned /\ result = "ok"
    /\ Len(calls) = 6
    /\ ev = "dl_skip"

\* C4: cache hit: a call of fetch_or_read_page or fetch_audio_metadata that
\* finds a file at the derived cache path issues no HTTP request, leaves the
\* cache alone and, when it returns content, returns exactly that file's content.
C4_CacheHit ==
    [][ /\ (pc = "page" /\ HasSlash(url)
              /\ AfterLastSlash(url) \o HtmlSuffix \in DOMAIN cache
              /\ result' # "crashed")
            => /\ net' = net
               /\ cache' = cache
               /\ pc' = "extract" => page_html' = cache[AfterLastSlash(url) \o HtmlSuffix]
        /\ (pc = "meta"
              /\ AfterLastSlash(URL_BASE \o audio_urls[i + 1]) \in DOMAIN cache
              /\ result' # "crashed")
            => /\ net' = net
               /\ cache' = cache
               /\ pc' = "parse" =>
                    json_content' = cache[AfterLastSlash(URL_BASE \o audio_urls[i + 1])]
      ]_vars

C4_Witness ==
    /\ ev = "meta_hit"
    /\ net = <<>>
    /\ page_html # NoContent
    /\ IsComplete(json_content)

\* C5: write-on-miss: when a fetch that missed the cache returns the body of a
\* successful response, the file at the derived cache path exists and holds
\* exactly the returned body, so the next call for the URL is a hit.
C5_WriteOnMiss ==
    /\ ev = "page_miss" =>
         /\ PageFileName(url) \in DOMAIN cache
         /\ cache[PageFileName(url)] = page_html
         /\ page_html = rsp /\ page_html.len = FullLen(page_html.doc)
    /\ ev = "meta_miss" =>
         /\ MetaFileName(audio_url) \in DOMAIN cache
         /\ cache[MetaFileName(audio_url)] = json_content
         /\ json_content = rsp /\ json_content.len = FullLen(json_content.doc)

C5_Witness ==
    /\ ev = "meta_miss"
    /\ json_content.doc = "M2"
    /\ Len(net) = 2

\* C6: cache write atomicity: whenever a fetch checks the cache, a file present
\* at the derived cache path holds a complete response body, also after a kill
\* or a write failure of an earlier fetch.
C6_NoPartialCacheEntry ==
    /\ (pc = "page" /\ HasSlash(url) /\ PageFileName(url) \in DOMAIN cache)
           => IsComplete(cache[PageFileName(url)])
    /\ (pc = "meta" /\ MetaFileName(audio_url) \in DOMAIN cache)
           => IsComplete(cache[MetaFileName(audio_url)])

\* C7: skip-on-exists: a call of download_audio that finds a file at the
\* computed output path, whatever it holds, issues no HTTP request, returns
\* success (main goes on or returns Ok) and leaves the output folder unchanged.
C7_SkipOnExists ==
    [][ (pc = "dl"
           /\ Fmt03(i + 1) \o NameSep \o Sanitize(metadata.title) \o Mp3Suffix
                 \in DOMAIN out
           /\ result' # "crashed")
          => /\ net' = net
             /\ out' = out
             /\ result' \in {"running", "ok"}
             /\ pc' \in {"meta", "halt"}
      ]_vars

C7_Witness ==
    /\ ev = "dl_skip"
    /\ LastCall.arg \in DOMAIN out
    /\ ~IsComplete(out[LastCall.arg])

\* C8: the audio write is all-or-nothing: when download_audio has failed (main
\* returned the error of its last call, a download that was not skipped), no
\* file is at the output path of that call.
C8_AllOrNothing ==
    (pc = "halt" /\ result = "err" /\ calls # <<>> /\ LastCall.fn = "dl")
        => LastCall.arg \notin DOMAIN out

\* C9: positional indexing: every call of download_audio gets the 1-based
\* position of its episode in the extracted sequence (the episode resolved
\* by the call before it), its file name starts with that index, and the
\* indices of successive downloads strictly increase.
C9_PositionalIndex ==
    \A k \in 1..Len(calls) :
        calls[k].fn = "dl" =>
            /\ k > 1
            /\ calls[k - 1].fn = "meta"
            /\ calls[k].idx \in 1..Len(audio_urls)
            /\ audio_urls[calls[k].idx] = calls[k - 1].arg
            /\ calls[k].idx = calls[k - 1].idx
            /\ SubSeq(calls[k].arg, 1, 3) = Fmt03(calls[k - 1].idx)
            /\ \A j \in 1..(k - 1) : calls[j].fn = "dl" => calls[j].idx < calls[k].idx

C9_Witness ==
    /\ Returned /\ result = "ok"
    /\ Len(calls) = 6
    /\ calls[2].arg \in DOMAIN out0
    /\ calls[4].arg \notin DOMAIN out0
    /\ SubSeq(calls[6].arg, 1, 3) = <<"0", "0", "3">>

\* C10: metadata field enforcement: when the metadata document lacks a string
\* at audio.url or audio.title, resolution fails with an error naming the
\* field, no AudioMetadata is produced, no request is issued, no file is
\* written and the run ends there.
C10_FieldEnforcement ==
    [][ (pc = "parse"
           /\ (Lacks(json_content, "url") \/ Lacks(json_content, "title"))
           /\ result' # "crashed")
          => /\ result' = "err"
             /\ pc' = "halt"
             /\ err' = IF Lacks(json_content, "url") THEN "Missing field url"
                       ELSE "Missing field title"
             /\ metadata' = NoMeta
             /\ net' = net
             /\ out' = out
             /\ calls' = calls
      ]_vars

C10_Witness ==
    /\ err = "Missing field title"
    /\ result = "err"
    /\ json_content.doc = "MNoTitle"
    /\ LastCall.fn = "meta"
    /\ LastCall.idx = 2

-----------------------------------------------------------------------------
(* C11..C20 *)

(* extract_options applied on its own to every short sequence of elements *)

MaxElems == 3

ElementChoices == {ElUrl(R1), ElUrl(R2), ElNoAttr, ElNoKey, ElBadJson, ElNonStr}

\* all sequences of at most n elements
RECURSIVE SeqsUpTo(_, _)
SeqsUpTo(S, n) ==
    IF n = 0 THEN {<<>>}
    ELSE LET shorter == SeqsUpTo(S, n - 1)
         IN  shorter \cup {Append(q, x) : q \in {r \in shorter : Len(r) = n - 1}, x \in S}

ExtractInit ==
    /\ run = 1
    /\ url = UrlA
    /\ pc = "extract_options"
    /\ Fresh
    /\ arg \in SeqsUpTo(ElementChoices, MaxElems)
    /\ ret = [panic |-> FALSE, urls |-> <<>>]

ApplyExtract ==
    /\ pc = "extract_options"
    /\ ret' = ExtractFrom(arg)
    /\ pc' = "returned"
    /\ UNCHANGED <<run, url, cache, out, page_html, audio_urls, i, rsp, json_content,
                   metadata, result, err, net, calls, ev, prevUrl, prevResult,
                   prevCalls, out0, resp, origin, arg>>

ExtractSpec == ExtractInit /\ [][ApplyExtract]_vars

\* positions of the elements whose options attribute holds a url key
UrlPositions(es) == {k \in 1..Len(es) : es[k].kind = "url"}

(* The sanitization of download_audio applied on its own to every short title *)

MaxTitleLen == 3

TitleChars == {"E", "e", "3", "_", " ", "\t", "-", ".", "#"}

\* "Ep. #3: Finale!"
ExampleTitle == <<"E","p","."," ","#","3",":"," ","F","i","n","a","l","e","!">>

\* "ep__3_ finale_", the result the specification gives for it
ExampleClaimed == <<"e","p","_","_","3","_"," ","f","i","n","a","l","e","_">>

\* "ep_ _3_ finale_"
ExampleSanitized == <<"e","p","_"," ","_","3","_"," ","f","i","n","a","l","e","_">>

SanitizeInit ==
    /\ run = 1
    /\ url = UrlA
    /\ pc = "sanitize"
    /\ Fresh
    /\ arg \in SeqsUpTo(TitleChars, MaxTitleLen) \cup {ExampleTitle, T1, T2}
    /\ ret = <<>>

ApplySanitize ==
    /\ pc = "sanitize"
    /\ ret' = Sanitize(arg)
    /\ pc' = "returned"
    /\ UNCHANGED <<run, url, cache, out, page_html, audio_urls, i, rsp, json_content,
                   metadata, result, err, net, calls, ev, prevUrl, prevResult,
                   prevCalls, out0, resp, origin, arg>>

SanitizeSpec == SanitizeInit /\ [][ApplySanitize]_vars

\* the lowercase word characters, whitespace and the hyphen
LowerWordSpaceHyphen ==
    {"a","b","e","f","i","l","n","p"} \cup {"0","1","2","3","4","5","6","7","8","9"}
        \cup {"_", " ", "\t", "-"}

\* upper-case letters with their lower-case forms
LowerOf == [A |-> "a", B |-> "b", E |-> "e", F |-> "f", P |-> "p"]

\* C11: page-fetch failure is terminal: when the page is not cached and its GET
\* fails or is answered with a non-success status, main returns the error at
\* once: nothing is extracted, no call of the loop is made, no other request is
\* issued and neither folder is written.
C11_PageFailureTerminal ==
    [][ (pc = "page" /\ net' # net /\ resp' \in {"neterr", "status"})
          => /\ result' = "err"
             /\ pc' = "halt"
             /\ err' \in {"Failed to fetch URL", "Failed to fetch URL. Status"}
             /\ net' = Append(net, [kind |-> "page", url |-> url])
             /\ page_html' = NoContent
             /\ audio_urls' = <<>>
             /\ calls' = <<>>
             /\ cache' = cache
             /\ out' = out
      ]_vars

C11_Witness ==
    /\ pc = "halt"
    /\ result = "err"
    /\ resp = "status"
    /\ Len(net) = 1
    /\ net[1].kind = "page"
    /\ cache = <<>>

\* C12: extraction result: when extract_options returns, its result holds, in
\* document order and with duplicates kept, the url of every element whose
\* options attribute is a JSON object with a url key, and nothing else:
\* elements without the attribute or without the key contribute nothing, and
\* a document without such an element gives the empty sequence.
C12_ExtractionResult ==
    (pc = "returned" /\ ~ret.panic) =>
        /\ Len(ret.urls) = Cardinality(UrlPositions(arg))
        /\ \A k \in UrlPositions(arg) :
             ret.urls[Cardinality({j \in UrlPositions(arg) : j <= k})] = arg[k].url

C12_Witness ==
    /\ pc = "returned"
    /\ arg = <<ElUrl(R1), ElNoKey, ElUrl(R1)>>
    /\ ret.urls = <<R1, R1>>

\* C13: malformed options JSON is fatal for the whole extraction: when an
\* element of the page carries an options attribute that is not valid JSON,
\* extract_options panics, no sequence is produced and the run ends there, so
\* no episode of the page, the ones before the malformed element included,
\* reaches metadata resolution or download.
C13_MalformedOptionsFatal ==
    [][ (pc = "extract"
           /\ page_html.doc \in PageDocs
           /\ (\E k \in 1..page_html.len : Elements(page_html.doc)[k].kind = "badjson")
           /\ result' # "crashed")
          => /\ result' = "panic"
             /\ pc' = "halt"
             /\ audio_urls' = <<>>
             /\ calls' = <<>>
             /\ net' = net
             /\ cache' = cache
             /\ out' = out
      ]_vars

C13_Witness ==
    /\ result = "panic"
    /\ pc = "halt"
    /\ page_html = [doc |-> "H2", len |-> 3]
    /\ Elements("H2")[1].kind = "url"
    /\ calls = <<>>

\* C14 as stated: sanitization replaces each character that is not a word
\* character, whitespace or hyphen by one underscore and lower-cases the
\* result, which holds only lower-case word characters, whitespace and
\* hyphens; "Ep. #3: Finale!" gives "ep__3_ finale_".
C14_SanitizationAsStated ==
    pc = "returned" =>
        /\ \A k \in 1..Len(ret) : ret[k] \in LowerWordSpaceHyphen
        /\ arg = ExampleTitle => ret = ExampleClaimed

\* C14 amended: the sanitized title has one character per character of the
\* title: an upper-case letter is replaced by its lower-case form, any other
\* word character, whitespace or hyphen is kept, and every other character
\* becomes an underscore; the result holds only lower-case word characters,
\* whitespace and hyphens, and "Ep. #3: Finale!" gives "ep_ _3_ finale_" (the
\* space after the dot is kept).
C14_Sanitization ==
    pc = "returned" =>
        /\ Len(ret) = Len(arg)
        /\ \A k \in 1..Len(arg) :
             /\ ret[k] = IF arg[k] \in DOMAIN LowerOf THEN LowerOf[arg[k]]
                         ELSE IF arg[k] \in LowerWordSpaceHyphen THEN arg[k]
                         ELSE "_"
             /\ ret[k] \in LowerWordSpaceHyphen
        /\ arg = ExampleTitle => ret = ExampleSanitized

C14_Witness ==
    /\ pc = "returned"
    /\ arg = ExampleTitle
    /\ ret = ExampleSanitized

\* the number of requests of one kind issued by this invocation
Requests(kind) == Cardinality({k \in 1..Len(net) : net[k].kind = kind})

CallsOf(fn) == Cardinality({k \in 1..Len(calls) : calls[k].fn = fn})

\* C15: termination: every invocation of main that starts reaches a terminal
\* state, and on the way each position of the extracted sequence is resolved
\* at most once and downloaded at most once, and no request is repeated: one
\* page request at most, and at most one request per call of the loop.
C15_Termination ==
    /\ (pc = "start") ~> (pc = "halt")
    /\ [](/\ \A j, k \in 1..Len(calls) :
               (j < k /\ calls[j].fn = calls[k].fn) => calls[j].idx < calls[k].idx
          /\ \A k \in 1..Len(calls) : calls[k].idx \in 1..Len(audio_urls)
          /\ Requests("page") <= 1
          /\ Requests("meta") <= CallsOf("meta")
          /\ Requests("audio") <= CallsOf("dl"))

C15_Witness ==
    /\ pc = "halt"
    /\ result = "ok"
    /\ Len(audio_urls) = 3
    /\ Len(calls) = 6
    /\ Len(net) = 6

\* the substring after the last '/' of s (s has one)
FinalSegment(s) ==
    CHOOSE t \in {SubSeq(s, k + 1, Len(s)) : k \in 1..Len(s)} :
        /\ \A j \in 1..Len(t) : t[j] # "/"
        /\ s[Len(s) - Len(t)] = "/"

\* C16: cache-key aliasing: every cache file is named by the final segment of
\* the URL whose fetch created it (followed by ".html" for a page), and a fetch
\* of another URL with that final segment finds the file, issues no request
\* and returns the content cached for the first URL.
C16_CacheKeyAliasing ==
    /\ [](\A f \in DOMAIN origin :
            \/ f = FinalSegment(origin[f])
            \/ f = FinalSegment(origin[f]) \o <<".","h","t","m","l">>)
    /\ [][ /\ (pc = "page" /\ HasSlash(url)
                 /\ FinalSegment(url) \o <<".","h","t","m","l">> \in DOMAIN origin
                 /\ origin[FinalSegment(url) \o <<".","h","t","m","l">>] # url
                 /\ result' # "crashed")
               => /\ net' = net
                  /\ pc' = "extract" =>
                       page_html' = cache[FinalSegment(url) \o <<".","h","t","m","l">>]
           /\ (pc = "meta"
                 /\ FinalSegment(audio_urls[i + 1]) \in DOMAIN origin
                 /\ origin[FinalSegment(audio_urls[i + 1])] # URL_BASE \o audio_urls[i + 1]
                 /\ result' # "crashed")
               => /\ net' = net
                  /\ pc' = "parse" =>
                       json_content' = cache[FinalSegment(audio_urls[i + 1])]
         ]_vars

C16_Witness ==
    /\ ev = "page_hit"
    /\ url = UrlB
    /\ origin[PageFileName(url)] = UrlA
    /\ page_html = [doc |-> "H1", len |-> 5]
    /\ net = <<>>

\* C17: cache entries are never updated in place: no step removes a cache
\* file, and the only step that changes the content of one is the write_all
\* of the fetch that has just created it, while it is still empty.
C17_NeverUpdatedInPlace ==
    [][ \A f \in DOMAIN cache :
          /\ f \in DOMAIN cache'
          /\ cache'[f] # cache[f] =>
               /\ pc \in {"page_write", "meta_write"}
               /\ ev \in {"page_created", "meta_created"}
               /\ cache[f] = [doc |-> "none", len |-> 0]
      ]_vars

C17_Witness ==
    /\ run > 1
    /\ pc = "parse"
    /\ ev = "meta_hit"
    /\ net = <<>>
    /\ json_content = [doc |-> "M1", len |-> 2]
    /\ cache[MetaFileName(audio_url)] = json_content

\* the error a metadata text is rejected with, "" when it is accepted
RejectedWith(c) ==
    IF c.doc \notin {"M1", "M2", "MNoTitle", "MNoUrl"} \/ c.len # 2
    THEN "Failed to parse JSON"
    ELSE IF c.doc = "MNoUrl" THEN "Missing field url"
    ELSE IF c.doc = "MNoTitle" THEN "Missing field title"
    ELSE ""

\* C18: invalid metadata is cached before it is validated: when the body of a
\* successful metadata GET is rejected (malformed JSON or a missing field), the
\* cache file of the reference already holds that body; and a resolution that
\* finds a rejected text in the cache issues no request and fails with the
\* error that text is rejected with.
C18_InvalidMetadataCached ==
    /\ []((pc = "halt" /\ result = "err" /\ resp = "ok" /\ calls # <<>>
             /\ LastCall.fn = "meta" /\ net # <<>> /\ net[Len(net)].kind = "meta"
             /\ net[Len(net)].url = URL_BASE \o LastCall.arg
             /\ err = RejectedWith(rsp))
            => /\ MetaFileName(LastCall.arg) \in DOMAIN cache
               /\ cache[MetaFileName(LastCall.arg)] = rsp)
    /\ [][ (pc = "meta"
              /\ MetaFileName(audio_urls[i + 1]) \in DOMAIN cache
              /\ RejectedWith(cache[MetaFileName(audio_urls[i + 1])]) # ""
              /\ result' # "crashed")
             => /\ net' = net
                /\ cache' = cache
                /\ pc' \in {"parse", "halt"}
         ]_vars
    /\ [][ (pc = "parse" /\ ev = "meta_hit" /\ RejectedWith(json_content) # ""
              /\ result' # "crashed")
             => /\ result' = "err"
                /\ err' = RejectedWith(json_content)
                /\ net' = net
         ]_vars

C18_Witness ==
    /\ run > 1
    /\ pc = "halt"
    /\ result = "err"
    /\ err = "Missing field title"
    /\ net = <<>>
    /\ json_content = [doc |-> "MNoTitle", len |-> 2]
    /\ origin[MetaFileName(audio_url)] = FullUrl(audio_url)

\* the last GET of the run, and the cache file fetch_or_read_page derives for it
LastRequest == net[Len(net)]

LastRequestFile == AfterLastSlash(LastRequest.url) \o
                     (IF LastRequest.kind = "page" THEN HtmlSuffix ELSE <<>>)

\* C19: a failed fetch leaves the cache unchanged: a step on which a page or
\* metadata GET fails at the transport level or with a non-success status
\* changes no cache file and ends the run with an error, the file of that URL
\* is still absent afterwards, a new invocation starts with the same cache, and
\* a call that finds no file for its URL issues a request for that URL.
C19_FailedFetchNoCache ==
    /\ [][ (net' # net /\ net' # <<>> /\ LastRequest'.kind \in {"page", "meta"}
              /\ resp' \in {"neterr", "status"})
             => /\ cache' = cache
                /\ result' = "err"
                /\ pc' = "halt"
         ]_vars
    /\ []((net # <<>> /\ LastRequest.kind \in {"page", "meta"}
             /\ resp \in {"neterr", "status"})
            => /\ pc = "halt"
               /\ LastRequestFile \notin DOMAIN cache)
    /\ [][ run' # run => cache' = cache ]_vars
    /\ [][ (pc = "page" /\ HasSlash(url) /\ PageFileName(url) \notin DOMAIN cache
              /\ result' # "crashed")
             => net' = Append(net, [kind |-> "page", url |-> url]) ]_vars
    /\ [][ (pc = "meta" /\ MetaFileName(audio_urls[i + 1]) \notin DOMAIN cache
              /\ result' # "crashed")
             => net' = Append(net, [kind |-> "meta",
                                    url |-> URL_BASE \o audio_urls[i + 1]]) ]_vars

\* a second invocation for the same page repeats the metadata request that the
\* first one made without result, and it fails on the status again
C19_Witness ==
    /\ run > 1
    /\ prevUrl = url
    /\ prevResult = "err"
    /\ prevCalls = 1
    /\ audio_urls # <<>>
    /\ calls = <<[fn |-> "meta", idx |-> 1, arg |-> audio_urls[1]]>>
    /\ net = <<[kind |-> "meta", url |-> URL_BASE \o audio_urls[1]]>>
    /\ resp = "status"
    /\ pc = "halt"
    /\ MetaFileName(audio_urls[1]) \notin DOMAIN cache


\* the positions of calls that hold a call of download_audio
Downloads == {k \in 1..Len(calls) : calls[k].fn = "dl"}

\* C20: output paths are distinct per position: within one invocation no two
\* calls of download_audio compute the same output path, a download is skipped
\* only for a file that was there when the invocation started, and the only
\* output file a step creates or changes is the path of the current call, which
\* was not there when the invocation started.
C20_DistinctOutputPaths ==
    /\ [](\A j, k \in Downloads : j # k => calls[j].arg # calls[k].arg)
    /\ []((ev = "dl_skip" /\ calls # <<>> /\ LastCall.fn = "dl")
            => LastCall.arg \in DOMAIN out0)
    /\ [][ \A f \in DOMAIN out' :
             (f \notin DOMAIN out \/ out'[f] # out[f])
               => /\ pc \in {"dl_create", "dl_write"}
                  /\ LastCall.fn = "dl"
                  /\ f = LastCall.arg
                  /\ f \notin DOMAIN out0
         ]_vars

\* an invocation downloaded positions 1 and 3, whose titles are the same
C20_Witness ==
    /\ pc = "halt"
    /\ result = "ok"
    /\ Len(calls) = 6
    /\ \E t \in {T1, T2} :
         /\ calls[2] = [fn |-> "dl", idx |-> 1, arg |-> OutputName(t, 1)]
         /\ calls[6] = [fn |-> "dl", idx |-> 3, arg |-> OutputName(t, 3)]
         /\ OutputName(t, 1) \notin DOMAIN out0
         /\ OutputName(t, 3) \notin DOMAIN out0
         /\ out[OutputName(t, 1)] = out[OutputName(t, 3)]
         /\ out[OutputName(t, 1)].len = 2

====
